---------------------------- MODULE Spec2Model ----------------------------
(***************************************************************************)
(* Nash Cards valuation tool: the credential/session store (Auth), the     *)
(* screen controller (UI), the lookup service (API) and the search         *)
(* orchestration (App), as one state machine.                              *)
(*                                                                         *)
(* Text is a sequence of one-character strings, so that trim, length,      *)
(* the e-mail pattern and character tests are computed as the code         *)
(* computes them.  A stored item that may be absent (a localStorage or     *)
(* sessionStorage key, a JavaScript null) is a sequence of length 0 or 1.  *)
(***************************************************************************)
EXTENDS Integers, Sequences, FiniteSets, TLC

VARIABLES
    users,            \* localStorage 'nashCards_users': None or Some(list of Credential Records)
    session,          \* localStorage 'nashCards_session': None or Some(Session Record)
    now,              \* Date.now()
    lastOp,           \* the most recent event: the call, its arguments, what it returned
    currentScreen,    \* the screen element that carries the class 'active'
    errorMessage,     \* text of the errorMessage element
    userMenuShown,    \* the user menu button is displayed (style.display = 'block')
    searchDisabled,   \* the search button is disabled
    resultsView,      \* what showResults last wrote into the results screen
    previousScreen,   \* sessionStorage 'previousScreen'
    cardData,         \* sessionStorage 'cardData': None or Some(Card Descriptor)
    currentCard,      \* App.currentCard
    searchInProgress, \* App.searchInProgress
    tasks,            \* the performSearch calls suspended at an await
    timers,           \* pending setTimeout(() => UI.showScreen('auth'), 1000) callbacks
    cache             \* API.cache: a set of [key, data, timestamp]

authVars == <<users, session>>
uiVars == <<currentScreen, errorMessage, userMenuShown, searchDisabled, resultsView>>
storeVars == <<previousScreen, cardData>>
appVars == <<currentCard, searchInProgress, tasks, timers>>
apiVars == <<cache>>
pageVars == <<uiVars, storeVars, appVars, apiVars>>
vars == <<authVars, now, lastOp, pageVars>>

---------------------------------------------------------------------------
(* Absent / present values *)
None == <<>>
Some(v) == <<v>>
IsSome(o) == Len(o) = 1
Get(o) == o[1]

---------------------------------------------------------------------------
(* Bounds of the model *)
MaxUsers == 4      \* signup is not taken once the stored list holds this many records
MaxTicks == 1      \* the clock is advanced at most this many times
StartTime == 1000  \* Date.now() when the page is first loaded
MaxInFlight == 2   \* performSearch calls suspended at the same time
MaxTimers == 1     \* pending redirect timers

---------------------------------------------------------------------------
(* Text helpers *)
IsSpace(c) == c = " "
Empty(s) == Len(s) = 0

RECURSIVE TrimStart(_)
TrimStart(s) == IF Len(s) > 0 /\ IsSpace(s[1]) THEN TrimStart(Tail(s)) ELSE s

RECURSIVE TrimEnd(_)
TrimEnd(s) ==
    IF Len(s) > 0 /\ IsSpace(s[Len(s)]) THEN TrimEnd(SubSeq(s, 1, Len(s) - 1)) ELSE s

Trim(s) == TrimEnd(TrimStart(s))

(* a non-empty run of characters that are neither white space nor '@' *)
PlainRun(s, lo, hi) ==
    /\ lo <= hi
    /\ \A k \in lo..hi : ~IsSpace(s[k]) /\ s[k] # "@"

(* the pattern without its dot: /^[^\s@]+@[^\s@]+$/ *)
isValidEmailNoDot(email) ==
    \E i \in 1..Len(email) :
        /\ email[i] = "@"
        /\ PlainRun(email, 1, i - 1)
        /\ PlainRun(email, i + 1, Len(email))

(* /^[^\s@]+@[^\s@]+\.[^\s@]+$/ *)
isValidEmail(email) ==
    \E i \in 1..Len(email) :
        /\ email[i] = "@"
        /\ PlainRun(email, 1, i - 1)
        /\ \E j \in (i + 1)..Len(email) :
              /\ email[j] = "."
              /\ PlainRun(email, i + 1, j - 1)
              /\ PlainRun(email, j + 1, Len(email))

---------------------------------------------------------------------------
(* Auth: the credential store *)
DemoName == <<"D","e","m","o"," ","U","s","e","r">>
DemoEmail == <<"d","e","m","o","@","e","x","a","m","p","l","e",".","c","o","m">>
DemoPassword == <<"p","a","s","s","w","o","r","d","1","2","3">>
DemoUser == [id |-> "1", name |-> DemoName, email |-> DemoEmail, password |-> DemoPassword]

MinPasswordLength == 6

(* getStoredUsers() || [] *)
UsersOrEmpty(store) == IF IsSome(store) THEN Get(store) ELSE <<>>

(* init that seeds without looking at the store *)
AuthInitAlways(store) == Some(<<DemoUser>>)

(* Auth.init: seed the default account when no user list is stored *)
AuthInit(store) == IF ~IsSome(store) THEN Some(<<DemoUser>>) ELSE store

(* users.find(u => u.email === email): the first record with that email *)
FindUser(list, email) ==
    LET idx == {i \in 1..Len(list) : list[i].email = email}
    IN  IF idx = {} THEN None
        ELSE Some(list[CHOOSE i \in idx : \A j \in idx : i <= j])

Result(ok, msg) == [success |-> ok, message |-> msg]

SessionOf(user, t) ==
    [id |-> user.id, name |-> user.name, email |-> user.email, loginTime |-> t]

(* login that never compares the password *)
LoginResultAnyPassword(store, email, password) ==
    LET found == FindUser(UsersOrEmpty(store), email)
    IN  IF Empty(email) \/ Empty(password) THEN Result(FALSE, "Email and password are required")
        ELSE IF ~IsSome(found) THEN Result(FALSE, "User not found")
        ELSE Result(TRUE, "Login successful")

(* login that looks the record up before it looks at the fields *)
LoginResultFindFirst(store, email, password) ==
    LET found == FindUser(UsersOrEmpty(store), email)
    IN  IF ~IsSome(found) THEN Result(FALSE, "User not found")
        ELSE IF Empty(email) \/ Empty(password)
             THEN Result(FALSE, "Email and password are required")
        ELSE IF Get(found).password # password THEN Result(FALSE, "Invalid password")
        ELSE Result(TRUE, "Login successful")

(* Auth.login: the value it returns *)
LoginResult(store, email, password) ==
    LET found == FindUser(UsersOrEmpty(store), email)
    IN  IF Empty(email) \/ Empty(password) THEN Result(FALSE, "Email and password are required")
        ELSE IF ~IsSome(found) THEN Result(FALSE, "User not found")
        ELSE IF Get(found).password # password THEN Result(FALSE, "Invalid password")
        ELSE Result(TRUE, "Login successful")

(* Auth.login: the session item it leaves *)
LoginSession(store, sess, email, password, t) ==
    IF LoginResult(store, email, password).success
    THEN Some(SessionOf(Get(FindUser(UsersOrEmpty(store), email)), t))
    ELSE sess

(* a duplicate test that looks at the first record only *)
EmailTakenFirstOnly(store, email) ==
    Len(UsersOrEmpty(store)) > 0 /\ UsersOrEmpty(store)[1].email = email

(* users.some(user => user.email === email) *)
EmailTaken(store, email) ==
    \E i \in 1..Len(UsersOrEmpty(store)) : UsersOrEmpty(store)[i].email = email

(* Auth.signup: the value it returns *)
SignupResult(store, name, email, password) ==
    IF Empty(name) \/ Empty(email) \/ Empty(password) THEN Result(FALSE, "All fields are required")
    ELSE IF ~isValidEmail(email) THEN Result(FALSE, "Invalid email address")
    ELSE IF Len(password) < MinPasswordLength
         THEN Result(FALSE, "Password must be at least 6 characters")
    ELSE IF EmailTaken(store, email) THEN Result(FALSE, "Email already registered")
    ELSE Result(TRUE, "Account created successfully")

NewUser(name, email, password, t) ==
    [id |-> ToString(t), name |-> name, email |-> email, password |-> password]

(* Auth.signup: the user list it leaves *)
SignupUsers(store, name, email, password, t) ==
    IF SignupResult(store, name, email, password).success
    THEN Some(Append(UsersOrEmpty(store), NewUser(name, email, password, t)))
    ELSE store

(* signup without its auto-login *)
SignupSessionNoLogin(store, sess, name, email, password, t) == sess

(* Auth.signup: the session it leaves (auto-login after the append) *)
SignupSession(store, sess, name, email, password, t) ==
    IF SignupResult(store, name, email, password).success
    THEN LoginSession(SignupUsers(store, name, email, password, t), sess, email, password, t)
    ELSE sess

(* logout that leaves the session item in place *)
LogoutSessionKeep(sess) == sess

(* Auth.logout *)
LogoutSession(sess) == None

isLoggedIn == IsSome(session)

---------------------------------------------------------------------------
(* Characters: charCodeAt, toLowerCase, toUpperCase, includes *)
Upper == <<"A","B","C","D","E","F","G","H","I","J","K","L","M",
           "N","O","P","Q","R","S","T","U","V","W","X","Y","Z">>
Lower == <<"a","b","c","d","e","f","g","h","i","j","k","l","m",
           "n","o","p","q","r","s","t","u","v","w","x","y","z">>
Digits == <<"0","1","2","3","4","5","6","7","8","9">>

IndexIn(seq, c) == CHOOSE i \in 1..Len(seq) : seq[i] = c
IsIn(seq, c) == \E i \in 1..Len(seq) : seq[i] = c

(* the characters the inputs are written in *)
Alphabet ==
    {Upper[i] : i \in 1..26} \cup {Lower[i] : i \in 1..26} \cup {Digits[i] : i \in 1..10}
    \cup {" ", "-", ".", "/", "@", "_"}

(* c.charCodeAt(0), as a table over Alphabet *)
CharCodes ==
    [c \in Alphabet |->
        IF IsIn(Upper, c) THEN 64 + IndexIn(Upper, c)
        ELSE IF IsIn(Lower, c) THEN 96 + IndexIn(Lower, c)
        ELSE IF IsIn(Digits, c) THEN 47 + IndexIn(Digits, c)
        ELSE IF c = " " THEN 32
        ELSE IF c = "-" THEN 45
        ELSE IF c = "." THEN 46
        ELSE IF c = "/" THEN 47
        ELSE IF c = "@" THEN 64
        ELSE 95]

charCode(c) == CharCodes[c]

LowerOf == [c \in Alphabet |-> IF IsIn(Upper, c) THEN Lower[IndexIn(Upper, c)] ELSE c]
UpperOf == [c \in Alphabet |-> IF IsIn(Lower, c) THEN Upper[IndexIn(Lower, c)] ELSE c]

toLowerCase(s) == [i \in 1..Len(s) |-> LowerOf[s[i]]]
toUpperCase(s) == [i \in 1..Len(s) |-> UpperOf[s[i]]]

includes(hay, needle) ==
    \E i \in 0..(Len(hay) - Len(needle)) : SubSeq(hay, i + 1, i + Len(needle)) = needle

(* str.substring(0, n) *)
substring0(s, n) == SubSeq(s, 1, IF Len(s) < n THEN Len(s) ELSE n)

---------------------------------------------------------------------------
(* API: the lookup service *)
CACHE_DURATION == 3600000

(* `search_${name}_${set}_${number}` *)
CacheKey(name, set, number) ==
    <<"s","e","a","r","c","h","_">> \o name \o <<"_">> \o set \o <<"_">> \o number

(* API.generateMockPrice(card): seeded by the first character of
   (card.name || 'pokemon'); nameProp is the name property of the argument,
   None when the argument has none *)
apiGenerateMockPrice(nameProp) ==
    LET text == IF IsSome(nameProp) /\ ~Empty(Get(nameProp)) THEN Get(nameProp)
                ELSE <<"p","o","k","e","m","o","n">>
    IN  5 + ((charCode(text[1]) * 137) % 496)

NA == <<"N","/","A">>

(* one element of formatCardResults' map; generateMockPrice is handed the
   string card.name, which has no name property *)
FormatCard(card) ==
    [id |-> card.id, name |-> card.name, set |-> card.setName, setCode |-> card.setId,
     number |-> IF Empty(card.number) THEN NA ELSE card.number,
     imageUrl |-> "", rarity |-> "Common", type |-> "Unknown", hp |-> "N/A",
     avg |-> apiGenerateMockPrice(None)]

FormatCards(cards) == [i \in 1..Len(cards) |-> FormatCard(cards[i])]

(* cache.has(key) alone: the age of the entry is not looked at *)
CacheHitAnyAge(c, key, t) == \E e \in c : e.key = key

(* cache.has(key) with an entry younger than CACHE_DURATION *)
CacheHit(c, key, t) == \E e \in c : e.key = key /\ t - e.timestamp < CACHE_DURATION
CachedData(c, key) == (CHOOSE e \in c : e.key = key).data

(* cache.set(key, {data, timestamp}) *)
CacheSet(c, key, data, t) ==
    {e \in c : e.key # key} \cup {[key |-> key, data |-> data, timestamp |-> t]}

SearchOk(data) == [success |-> TRUE, data |-> data, error |-> ""]
SearchFail(msg) == [success |-> FALSE, data |-> <<>>, error |-> msg]

(* the filter with card.name.toLowerCase() === nameMatch *)
FilterCardsExact(cards, name) ==
    LET nameMatch == Trim(toLowerCase(name))
        IsMatch(card) == toLowerCase(card.name) = nameMatch
        filtered == SelectSeq(cards, IsMatch)
    IN  IF Len(filtered) = 0 THEN cards ELSE filtered

(* the cards searchCards keeps of a non-empty remote result *)
FilterCards(cards, name) ==
    LET nameMatch == Trim(toLowerCase(name))
        IsMatch(card) == includes(toLowerCase(card.name), nameMatch)
        filtered == SelectSeq(cards, IsMatch)
    IN  IF Len(filtered) = 0 THEN cards ELSE filtered

(* searchCards without the length test: any answered body is a success *)
SearchAfterFetchAnyList(resp, name) ==
    IF resp.ok
    THEN SearchOk(FormatCards(FilterCards(resp.data, name)))
    ELSE SearchFail("No cards found")

(* searchCards after the remote call settled with resp: what it returns *)
SearchAfterFetch(resp, name) ==
    IF resp.ok /\ Len(resp.data) > 0
    THEN SearchOk(FormatCards(FilterCards(resp.data, name)))
    ELSE SearchFail("No cards found")

(* the cache when every return of searchCards stored what it returned *)
CacheAfterFetchAlways(c, searchResult, name, set, number, t) ==
    CacheSet(c, CacheKey(name, set, number), searchResult.data, t)

(* ... and the cache it leaves: the cards it returns from the remote call are
   the cards it stores *)
CacheAfterFetch(c, searchResult, name, set, number, t) ==
    IF searchResult.success
    THEN CacheSet(c, CacheKey(name, set, number), searchResult.data, t)
    ELSE c

(* conditionMultipliers, in percent *)
conditionMultipliers ==
    [c \in {"Near Mint", "Lightly Played", "Moderately Played"} |->
        IF c = "Near Mint" THEN 100 ELSE IF c = "Lightly Played" THEN 75 ELSE 50]

(* the property names the object literal inherits from Object.prototype: a
   lookup of one of them finds a function (or, for __proto__, an object) *)
ObjectPrototypeNames ==
    {"constructor", "hasOwnProperty", "isPrototypeOf", "propertyIsEnumerable",
     "toLocaleString", "toString", "valueOf", "__proto__", "__defineGetter__",
     "__defineSetter__", "__lookupGetter__", "__lookupSetter__"}

(* conditionMultipliers[condition] || 0.5: the percentage, or None where the
   lookup finds an inherited member, which is truthy and not a number *)
Multiplier(condition) ==
    IF condition \in DOMAIN conditionMultipliers THEN Some(conditionMultipliers[condition])
    ELSE IF condition \in ObjectPrototypeNames THEN None
    ELSE Some(50)

(* card.prices?.tcgplayer?.avg || generateMockPrice(card): an avg of 0 is
   falsy *)
BasePrice(card) == IF card.avg # 0 THEN card.avg ELSE apiGenerateMockPrice(Some(card.name))

(* API.enrichCardWithPricing; prices are in cents, as toFixed(2) renders
   them; the product with what is not a number is NaN, rendered "NaN": None *)
enrichCardWithPricing(card, condition) ==
    [card |-> card,
     selectedCondition |-> condition,
     basePrice |-> BasePrice(card) * 100,
     adjustedPrice |-> IF IsSome(Multiplier(condition))
                       THEN Some(BasePrice(card) * Get(Multiplier(condition)))
                       ELSE None,
     conditionMultiplier |-> Multiplier(condition)]

---------------------------------------------------------------------------
(* App: the fallback card *)
Pikachu == <<"P","i","k","a","c","h","u">>
Charizard == <<"C","h","a","r","i","z","a","r","d">>

(* the seed taken from the first character alone *)
appGenerateMockPriceFirstOnly(cardName) ==
    15 + (((charCode(cardName[1]) * 2) * 257) % 486)

(* App.generateMockPrice(cardName) *)
appGenerateMockPrice(cardName) ==
    15 + (((charCode(cardName[1]) + charCode(cardName[Len(cardName)])) * 257) % 486)

(* App.generateMockImageUrl(pokemonName): the rows of pokemonMap the inputs reach *)
generateMockImageUrl(pokemonName) ==
    IF toLowerCase(pokemonName) = toLowerCase(Pikachu)
    THEN "https://images.pokemontcg.io/base1/25.png"
    ELSE "https://images.pokemontcg.io/base1/4.png"

(* API.getSampleCard() in the place of the card made from the descriptor *)
createMockCardResultSample(cd, t) ==
    [id |-> <<"s","a","m","p","l","e","_","0","0","1">>,
     name |-> Charizard, set |-> <<"B","a","s","e"," ","S","e","t">>,
     setCode |-> <<"B","S">>, number |-> <<"4","/","1","0","2">>,
     imageUrl |-> "https://images.pokemontcg.io/base1/4.png",
     rarity |-> "Holo Rare", type |-> "Fire", hp |-> "120", avg |-> 45]

(* App.createMockCardResult(cardData) *)
createMockCardResult(cd, t) ==
    [id |-> <<"m","o","c","k","_">> \o <<ToString(t)>>,
     name |-> cd.name, set |-> cd.set,
     setCode |-> toUpperCase(substring0(cd.set, 2)),
     number |-> IF Empty(cd.number) THEN <<"1","/","1","0","2">> ELSE cd.number,
     imageUrl |-> generateMockImageUrl(cd.name),
     rarity |-> "Holo Rare", type |-> "Varies", hp |-> "120",
     avg |-> appGenerateMockPrice(cd.name)]

(* the card performSearch keeps for a search result *)
ChooseCard(searchResult, cd, t) ==
    IF ~searchResult.success THEN createMockCardResult(cd, t)
    ELSE IF Len(searchResult.data) > 0 THEN searchResult.data[1]
    ELSE createMockCardResult(cd, t)

---------------------------------------------------------------------------
(* UI: screens *)
Screens == {"auth", "cardInput", "confirmation", "loading", "results", "error"}
protectedScreens == {"cardInput", "confirmation", "loading", "results"}

LogInFirst == "Please log in first to continue"

UiNow == [screen |-> currentScreen, err |-> errorMessage]

(* the active class moves to the named screen, if there is such a screen *)
Activate(ui, screenName) ==
    IF screenName \in Screens THEN [ui EXCEPT !.screen = screenName] ELSE ui

(* UI.showError(message) *)
showError(ui, message) == Activate([ui EXCEPT !.err = message], "error")

(* showScreen that does not look at the session *)
showScreenUnguarded(ui, loggedIn, screenName) == Activate(ui, screenName)

(* showScreen with cardInput as its one protected screen *)
showScreenGuardsInputOnly(ui, loggedIn, screenName) ==
    IF screenName = "cardInput" /\ ~loggedIn
    THEN Activate(showError(ui, LogInFirst), "auth")
    ELSE Activate(ui, screenName)

(* UI.showScreen(screenName) *)
showScreen(ui, loggedIn, screenName) ==
    IF screenName \in protectedScreens /\ ~loggedIn
    THEN Activate(showError(ui, LogInFirst), "auth")
    ELSE Activate(ui, screenName)

(* UI.updateUserDisplay(): the menu button and, without a session, the auth screen *)
updateUserDisplay(ui, sess) ==
    IF IsSome(sess) THEN [ui |-> ui, menu |-> TRUE]
    ELSE [ui |-> showScreen(ui, FALSE, "auth"), menu |-> FALSE]

(* showResults that activates the results screen itself *)
showResultsUnchecked(ui, loggedIn) == Activate(ui, "results")

(* showResults that fills the results in and shows no screen *)
showResultsNowhere(ui, loggedIn) == ui

(* UI.showResults(cardData): its last statement, showScreen('results') *)
showResults(ui, loggedIn) == showScreen(ui, loggedIn, "results")

(* what UI.showResults(cardData) writes into the results screen *)
ResultsOf(enriched) ==
    [name |-> enriched.card.name,
     set |-> IF ~Empty(enriched.card.set) THEN enriched.card.set
             ELSE IF ~Empty(enriched.card.setCode) THEN enriched.card.setCode ELSE NA,
     condition |-> enriched.selectedCondition,
     price |-> enriched.adjustedPrice,
     imageUrl |-> enriched.card.imageUrl]

(* the screen whose buttons can be clicked *)
OnScreen(screenName) == currentScreen = screenName

SetUi(ui) == currentScreen' = ui.screen /\ errorMessage' = ui.err

---------------------------------------------------------------------------
(* Inputs *)
AnnName == <<"A","n","n">>
AnnEmail == <<"a","n","n","@","x",".","c","o","m">>
BobEmail == <<"b","@","y",".","i","o">>
NoDotEmail == <<"a","n","n","@","x">>
SpaceEmail == <<"a"," ","n","@","x",".","c","o","m">>
Abc123 == <<"a","b","c","1","2","3">>
Abc12 == <<"a","b","c","1","2">>

Names == {<<>>, AnnName}
Emails == {<<>>, DemoEmail, AnnEmail, BobEmail, NoDotEmail, SpaceEmail}
Passwords == {<<>>, Abc12, Abc123, DemoPassword}

(* what a user types into the forms *)
(* what the user may have typed into the login and the signup form *)
LoginForms ==
    {[email |-> <<" ">> \o DemoEmail \o <<" ">>, password |-> DemoPassword],
     [email |-> AnnEmail, password |-> Abc123]}
SignupForms ==
    {[name |-> AnnName, email |-> AnnEmail, password |-> Abc123, confirm |-> p] :
        p \in {Abc123, DemoPassword}}
BaseSet == <<"B","a","s","e"," ","S","e","t">>
Conditions == {"Near Mint"}
Form(hasPhoto, cardName, cardSet, condition) ==
    [photo |-> hasPhoto, name |-> cardName, set |-> cardSet, number |-> <<>>,
     condition |-> condition]
(* the card form as the user may have filled it in *)
SearchForms ==
    {Form(FALSE, <<>>, <<" ">>, None)}
    \cup {Form(FALSE, <<" ">> \o Pikachu, BaseSet, Some(c)) : c \in Conditions}
Uploads == {"notImage", "image"}

(* what the remote catalog answers *)
PikachuCard == [id |-> <<"b","1","-","5","8">>, name |-> Pikachu, setName |-> <<"B","a","s","e">>,
                setId |-> <<"b","1">>, number |-> <<"5","8">>]
RaichuCard == [id |-> <<"b","1","-","1","4">>, name |-> <<"R","a","i","c","h","u">>,
               setName |-> <<"B","a","s","e">>, setId |-> <<"b","1">>, number |-> <<>>]
Responses ==
    {[ok |-> FALSE, data |-> <<>>], [ok |-> TRUE, data |-> <<>>],
     [ok |-> TRUE, data |-> <<RaichuCard, PikachuCard>>]}

---------------------------------------------------------------------------
(* The most recent event: the call, its arguments, the value it returned and
   the screen it asked showScreen for last *)
NoForm == [photo |-> FALSE, name |-> <<>>, set |-> <<>>, number |-> <<>>, condition |-> <<>>]

Event(op, name, email, password, res) ==
    [op |-> op, name |-> name, email |-> email, password |-> password,
     success |-> res.success, message |-> res.message, screen |-> "", form |-> NoForm]

Plain(op) == Event(op, <<>>, <<>>, <<>>, Result(TRUE, ""))

UiEvent(op, screenName, res) == [Plain(op) EXCEPT !.screen = screenName, !.success = res.success]

(* the event of a submitted card form: the form as it was filled in *)
FormEvent(op, screenName, res, form) == [UiEvent(op, screenName, res) EXCEPT !.form = form]

---------------------------------------------------------------------------
(* The clock: Date.now() moves on by a millisecond between two events *)
ClockValues == StartTime..(StartTime + MaxTicks)

Tick ==
    /\ now + 1 \in ClockValues
    /\ now' = now + 1
    /\ lastOp' = Plain("tick")
    /\ UNCHANGED <<authVars, pageVars>>

---------------------------------------------------------------------------
(* Auth operations as actions *)
AuthInitCall ==
    /\ users' = AuthInit(users)
    /\ lastOp' = Plain("init")
    /\ UNCHANGED <<session, now, pageVars>>

SignupCall(name, email, password) ==
    /\ Len(UsersOrEmpty(users)) < MaxUsers
    /\ users' = SignupUsers(users, name, email, password, now)
    /\ session' = SignupSession(users, session, name, email, password, now)
    /\ lastOp' = Event("signup", name, email, password,
                        SignupResult(users, name, email, password))
    /\ UNCHANGED <<now, pageVars>>

LoginCall(email, password) ==
    /\ session' = LoginSession(users, session, email, password, now)
    /\ lastOp' = Event("login", <<>>, email, password, LoginResult(users, email, password))
    /\ UNCHANGED <<users, now, pageVars>>

LogoutCall ==
    /\ session' = LogoutSession(session)
    /\ lastOp' = Plain("logout")
    /\ UNCHANGED <<users, now, pageVars>>

Signup == \E n \in Names, e \in Emails, p \in Passwords : SignupCall(n, e, p)
Login == \E e \in Emails, p \in Passwords : LoginCall(e, p)

(* the first page load of a browser that holds nothing yet *)
Init ==
    /\ users = AuthInit(None)
    /\ session = None
    /\ now = StartTime
    /\ lastOp = Plain("init")
    /\ currentScreen = "auth"
    /\ errorMessage = ""
    /\ userMenuShown = FALSE
    /\ searchDisabled = FALSE
    /\ resultsView = None
    /\ previousScreen = None
    /\ cardData = None
    /\ currentCard = None
    /\ searchInProgress = FALSE
    /\ tasks = <<>>
    /\ timers = 0
    /\ cache = {}

NextAuth == AuthInitCall \/ Signup \/ Login \/ LogoutCall \/ Tick

SpecAuth == Init /\ [][NextAuth]_vars

---------------------------------------------------------------------------
(* UI handlers *)

(* handleLogin: click on the login button *)
HandleLogin(typedEmail, password) ==
    /\ OnScreen("auth")
    /\ LET email == Trim(typedEmail)
           missing == Empty(email) \/ Empty(password)
           result == IF missing THEN Result(FALSE, "Please enter email and password")
                     ELSE LoginResult(users, email, password)
           sess == IF missing THEN session
                   ELSE LoginSession(users, session, email, password, now)
           shown == updateUserDisplay(UiNow, sess)
       IN  /\ session' = sess
           /\ IF result.success
              THEN /\ SetUi(showScreen(shown.ui, IsSome(sess), "cardInput"))
                   /\ userMenuShown' = shown.menu
                   /\ lastOp' = UiEvent("handleLogin", "cardInput", result)
              ELSE /\ SetUi(showError(UiNow, result.message))
                   /\ UNCHANGED userMenuShown
                   /\ lastOp' = UiEvent("handleLogin", "error", result)
    /\ UNCHANGED <<users, now, searchDisabled, resultsView, storeVars, appVars, apiVars>>

(* handleSignup: click on the signup button *)
HandleSignup(typedName, typedEmail, password, password2) ==
    /\ OnScreen("auth")
    /\ Len(UsersOrEmpty(users)) < MaxUsers
    /\ LET name == Trim(typedName)
           email == Trim(typedEmail)
           missing == Empty(name) \/ Empty(email) \/ Empty(password) \/ Empty(password2)
           called == ~missing /\ password = password2
           result == IF missing THEN Result(FALSE, "Please fill in all fields")
                     ELSE IF password # password2 THEN Result(FALSE, "Passwords do not match")
                     ELSE SignupResult(users, name, email, password)
           sess == IF called THEN SignupSession(users, session, name, email, password, now)
                   ELSE session
           shown == updateUserDisplay(UiNow, sess)
       IN  /\ users' = IF called THEN SignupUsers(users, name, email, password, now) ELSE users
           /\ session' = sess
           /\ IF result.success
              THEN /\ SetUi(showScreen(shown.ui, IsSome(sess), "cardInput"))
                   /\ userMenuShown' = shown.menu
                   /\ lastOp' = UiEvent("handleSignup", "cardInput", result)
              ELSE /\ SetUi(showError(UiNow, result.message))
                   /\ UNCHANGED userMenuShown
                   /\ lastOp' = UiEvent("handleSignup", "error", result)
    /\ UNCHANGED <<now, searchDisabled, resultsView, storeVars, appVars, apiVars>>

(* handleLogout: click on the logout entry of the user menu *)
HandleLogout ==
    /\ userMenuShown
    /\ LET sess == LogoutSession(session)
           shown == updateUserDisplay(UiNow, sess)
       IN  /\ session' = sess
           /\ userMenuShown' = shown.menu
           /\ SetUi(showScreen(shown.ui, IsSome(sess), "auth"))
    /\ lastOp' = UiEvent("handleLogout", "auth", Result(TRUE, ""))
    /\ UNCHANGED <<users, now, searchDisabled, resultsView, storeVars, appVars, apiVars>>

(* handleFileUpload: a file chosen or dropped on the upload area *)
HandleFileUpload(kind) ==
    /\ OnScreen("cardInput")
    /\ IF kind = "notImage"
       THEN /\ SetUi(showError(UiNow, "Please upload an image file"))
            /\ lastOp' = UiEvent("handleFileUpload", "error", Result(FALSE, "Please upload an image file"))
       ELSE IF kind = "tooBig"
       THEN /\ SetUi(showError(UiNow, "File size must be less than 10MB"))
            /\ lastOp' = UiEvent("handleFileUpload", "error", Result(FALSE, "File size must be less than 10MB"))
       ELSE /\ UNCHANGED <<currentScreen, errorMessage>>
            /\ lastOp' = UiEvent("handleFileUpload", "", Result(TRUE, ""))
    /\ UNCHANGED <<authVars, now, userMenuShown, searchDisabled, resultsView,
                   storeVars, appVars, apiVars>>

(* handleSearch with a photo standing in for the name and the set *)
SearchFormResultPhotoEnough(loggedIn, hasPhoto, cardName, cardSet, condition) ==
    IF ~loggedIn THEN Result(FALSE, "Please log in first to search for cards")
    ELSE IF ~hasPhoto /\ (Empty(cardName) \/ Empty(cardSet))
         THEN Result(FALSE, "Please enter card name and set")
    ELSE IF ~IsSome(condition) THEN Result(FALSE, "Please select a card condition")
    ELSE Result(TRUE, "")

(* what handleSearch answers to the form: the message it shows, or success *)
SearchFormResult(loggedIn, hasPhoto, cardName, cardSet, condition) ==
    IF ~loggedIn THEN Result(FALSE, "Please log in first to search for cards")
    ELSE IF ~hasPhoto /\ Empty(cardName) /\ Empty(cardSet)
         THEN Result(FALSE, "Please upload a photo or enter card details")
    ELSE IF Empty(cardName) \/ Empty(cardSet) THEN Result(FALSE, "Please enter card name and set")
    ELSE IF ~IsSome(condition) THEN Result(FALSE, "Please select a card condition")
    ELSE Result(TRUE, "")

(* handleSearch: click on the search button; showConfirmation follows *)
HandleSearch(hasPhoto, typedName, typedSet, typedNumber, condition) ==
    /\ OnScreen("cardInput")
    /\ ~searchDisabled
    /\ LET cardName == Trim(typedName)
           cardSet == Trim(typedSet)
           result == SearchFormResult(isLoggedIn, hasPhoto, cardName, cardSet, condition)
       IN  IF result.success
           THEN /\ cardData' = Some([name |-> cardName, set |-> cardSet,
                                     number |-> Trim(typedNumber),
                                     condition |-> Get(condition),
                                     photo |-> IF hasPhoto THEN "data:image" ELSE ""])
                /\ SetUi(showScreen(UiNow, isLoggedIn, "confirmation"))
                /\ lastOp' = FormEvent("handleSearch", "confirmation", result,
                                       Form(hasPhoto, typedName, typedSet, condition))
           ELSE /\ UNCHANGED cardData
                /\ SetUi(showError(UiNow, result.message))
                /\ lastOp' = FormEvent("handleSearch", "error", result,
                                       Form(hasPhoto, typedName, typedSet, condition))
    /\ UNCHANGED <<authVars, now, userMenuShown, searchDisabled, resultsView,
                   previousScreen, appVars, apiVars>>

(* a button whose handler is one showScreen call: back, new search, home,
   error home (to cardInput) and error retry (to the stored previous screen) *)
Navigate(op, from, target) ==
    /\ OnScreen(from)
    /\ SetUi(showScreen(UiNow, isLoggedIn, target))
    /\ lastOp' = UiEvent(op, target, Result(TRUE, ""))
    /\ UNCHANGED <<authVars, now, userMenuShown, searchDisabled, resultsView,
                   storeVars, appVars, apiVars>>

Back == Navigate("back", "confirmation", "cardInput")
NewSearch == Navigate("newSearch", "results", "cardInput")
Home == Navigate("home", "results", "cardInput")
ErrorHome == Navigate("errorHome", "error", "cardInput")
ErrorRetry ==
    Navigate("errorRetry", "error",
             IF IsSome(previousScreen) THEN Get(previousScreen) ELSE "cardInput")

---------------------------------------------------------------------------
(* App: the search *)

Remove(seq, i) == SubSeq(seq, 1, i - 1) \o SubSeq(seq, i + 1, Len(seq))

(* if (searchInProgress) return; *)
SearchBlocked == searchInProgress

(* click on the confirm button: handleConfirmSearch, then performSearch up
   to its first await; owner is what the started search is noted to belong
   to *)
ConfirmClickNoting(owner) ==
    /\ OnScreen("confirmation")
    /\ previousScreen' = Some("confirmation")
    /\ LET ui == showScreen(UiNow, isLoggedIn, "loading")
       IN  IF SearchBlocked
           THEN /\ SetUi(ui)
                /\ lastOp' = UiEvent("confirmDropped", "loading", Result(TRUE, ""))
                /\ UNCHANGED <<searchDisabled, appVars>>
           ELSE IF ~isLoggedIn
           THEN /\ timers < MaxTimers
                /\ SetUi(showError(ui, "You must be logged in to search for cards"))
                /\ timers' = timers + 1
                /\ lastOp' = UiEvent("confirmRefused", "error",
                                     Result(FALSE, "You must be logged in to search for cards"))
                /\ UNCHANGED <<searchDisabled, currentCard, searchInProgress, tasks>>
           ELSE IF ~IsSome(cardData)
           THEN /\ SetUi(showError(ui, "Card data not found"))
                /\ lastOp' = UiEvent("confirmRefused", "error", Result(FALSE, "Card data not found"))
                /\ UNCHANGED <<searchDisabled, appVars>>
           ELSE /\ Len(tasks) < MaxInFlight
                /\ searchInProgress' = TRUE
                /\ searchDisabled' = TRUE
                /\ SetUi(showScreen(ui, isLoggedIn, "loading"))
                /\ tasks' = Append(tasks, [pc |-> "delay", cd |-> Get(cardData), owner |-> owner])
                /\ lastOp' = UiEvent("confirmStarted", "loading", Result(TRUE, ""))
                /\ UNCHANGED <<currentCard, timers>>
    /\ UNCHANGED <<authVars, now, userMenuShown, resultsView, cardData, apiVars>>

ConfirmClick == ConfirmClickNoting(None)

(* the same click, the session of the moment noted with the search *)
ConfirmClickOwned == ConfirmClickNoting(session)

(* finally: searchInProgress stays set *)
GuardKeptAfterSearch == TRUE

(* finally { searchInProgress = false; ... } *)
GuardAfterSearch == FALSE

(* performSearch from the value searchCards returned to the end of finally *)
Complete(i, searchResult) ==
    \E card \in {ChooseCard(searchResult, tasks[i].cd, now)} :
    \E enriched \in {enrichCardWithPricing(card, tasks[i].cd.condition)} :
        /\ currentCard' = Some(card)
        /\ resultsView' = Some(ResultsOf(enriched))
        /\ SetUi(showResults(UiNow, isLoggedIn))
        /\ searchInProgress' = GuardAfterSearch
        /\ searchDisabled' = FALSE
        /\ tasks' = Remove(tasks, i)
        /\ UNCHANGED userMenuShown
        /\ lastOp' = UiEvent("searchDone", "results",
                             Result(searchResult.success, searchResult.error))

(* the 2000 ms delay is over: searchCards runs to its cached answer or to
   the remote call *)
DelayDone(i) ==
    /\ tasks[i].pc = "delay"
    /\ LET cd == tasks[i].cd
           key == CacheKey(cd.name, cd.set, cd.number)
       IN  IF CacheHit(cache, key, now)
           THEN Complete(i, SearchOk(CachedData(cache, key)))
           ELSE /\ tasks' = [tasks EXCEPT ![i].pc = "fetch"]
                /\ lastOp' = UiEvent("fetchIssued", "", Result(TRUE, ""))
                /\ UNCHANGED <<uiVars, currentCard, searchInProgress>>
    /\ UNCHANGED <<authVars, now, storeVars, timers, apiVars>>

(* the remote call settles with resp *)
FetchDone(i, resp) ==
    /\ tasks[i].pc = "fetch"
    /\ \E searchResult \in {SearchAfterFetch(resp, tasks[i].cd.name)} :
           /\ cache' = CacheAfterFetch(cache, searchResult, tasks[i].cd.name,
                                       tasks[i].cd.set, tasks[i].cd.number, now)
           /\ Complete(i, searchResult)
    /\ UNCHANGED <<authVars, now, storeVars, timers>>

SearchStep == \E i \in 1..Len(tasks) : DelayDone(i) \/ \E resp \in Responses : FetchDone(i, resp)

(* the redirect timer set by a refused performSearch fires *)
TimerFire ==
    /\ timers > 0
    /\ timers' = timers - 1
    /\ SetUi(showScreen(UiNow, isLoggedIn, "auth"))
    /\ lastOp' = UiEvent("timer", "auth", Result(TRUE, ""))
    /\ UNCHANGED <<authVars, now, userMenuShown, searchDisabled, resultsView,
                   storeVars, currentCard, searchInProgress, tasks, apiVars>>

(* App.reset() *)
Reset ==
    /\ currentCard' = None
    /\ searchInProgress' = FALSE
    /\ lastOp' = Plain("reset")
    /\ UNCHANGED <<authVars, now, uiVars, storeVars, tasks, timers, apiVars>>

(* the session item is removed without the controller: Auth.logout() called
   directly, or by another page of the same origin *)
SessionRemoved ==
    /\ IsSome(session)
    /\ session' = LogoutSession(session)
    /\ lastOp' = Plain("logout")
    /\ UNCHANGED <<users, now, pageVars>>

(* a start that shows auth whatever is stored *)
StartScreenAlwaysAuth(loggedIn) == "auth"

(* App.init: the screen it asks for *)
StartScreen(loggedIn) == IF loggedIn THEN "cardInput" ELSE "auth"

(* the page is loaded again: a new document and script state over the
   storage the last one left; Auth.init() at script load, then App.init() *)
AppInit ==
    /\ users' = AuthInit(AuthInit(users))
    /\ LET blank == [screen |-> "", err |-> ""]
           shown == updateUserDisplay(blank, session)
       IN  /\ userMenuShown' = shown.menu
           /\ SetUi(showScreen(shown.ui, isLoggedIn, StartScreen(isLoggedIn)))
    /\ searchDisabled' = FALSE
    /\ resultsView' = None
    /\ currentCard' = None
    /\ searchInProgress' = FALSE
    /\ tasks' = <<>>
    /\ timers' = 0
    /\ cache' = {}
    /\ lastOp' = UiEvent("appInit", StartScreen(isLoggedIn), Result(TRUE, ""))
    /\ UNCHANGED <<session, now, storeVars>>

Next ==
    \/ \E f \in LoginForms : HandleLogin(f.email, f.password)
    \/ \E f \in SignupForms : HandleSignup(f.name, f.email, f.password, f.confirm)
    \/ HandleLogout
    \/ \E k \in Uploads : HandleFileUpload(k)
    \/ \E f \in SearchForms : HandleSearch(f.photo, f.name, f.set, f.number, f.condition)
    \/ Back
    \/ NewSearch
    \/ Home
    \/ ErrorHome
    \/ ErrorRetry
    \/ ConfirmClick
    \/ SearchStep
    \/ TimerFire
    \/ Reset
    \/ SessionRemoved
    \/ AppInit

Spec == Init /\ [][Next]_vars

(* the delay and the remote call of a started search always settle; every
   SearchStep changes tasks *)
FairSpec == Spec /\ WF_tasks(SearchStep)

---------------------------------------------------------------------------
(* The forms of the page, filled in every way *)

AllLoginForms ==
    {[email |-> e, password |-> p] :
        e \in {<<>>, <<" ">> \o DemoEmail \o <<" ">>, AnnEmail, BobEmail},
        p \in {<<>>, DemoPassword, Abc123}}
AllSignupForms ==
    {[name |-> n, email |-> e, password |-> p, confirm |-> c] :
        n \in {<<>>, AnnName}, e \in {<<>>, AnnEmail, DemoEmail, NoDotEmail},
        p \in {Abc12, Abc123}, c \in {Abc12, Abc123}}
AllSearchForms ==
    {Form(photo, n, s, c) :
        photo \in BOOLEAN, n \in {<<>>, <<" ">>, <<" ">> \o Pikachu}, s \in {<<>>, BaseSet},
        c \in {None, Some("Near Mint"), Some("Lightly Played")}}

NextForms ==
    \/ \E f \in AllLoginForms : HandleLogin(f.email, f.password)
    \/ \E f \in AllSignupForms : HandleSignup(f.name, f.email, f.password, f.confirm)
    \/ HandleLogout
    \/ \E k \in Uploads : HandleFileUpload(k)
    \/ \E f \in AllSearchForms : HandleSearch(f.photo, f.name, f.set, f.number, f.condition)
    \/ Back
    \/ ErrorHome
    \/ ErrorRetry
    \/ SessionRemoved

SpecForms == Init /\ [][NextForms]_vars

---------------------------------------------------------------------------
(* The page used through its buttons alone: the session is written by
   handleLogin, handleSignup and handleLogout only, so the redirect timer of
   a confirm click without a session is never set *)
NextController ==
    \/ \E f \in LoginForms : HandleLogin(f.email, f.password)
    \/ \E f \in SignupForms : HandleSignup(f.name, f.email, f.password, f.confirm)
    \/ HandleLogout
    \/ \E k \in Uploads : HandleFileUpload(k)
    \/ \E f \in SearchForms : HandleSearch(f.photo, f.name, f.set, f.number, f.condition)
    \/ Back
    \/ NewSearch
    \/ Home
    \/ ErrorHome
    \/ ErrorRetry
    \/ ConfirmClickOwned
    \/ SearchStep
    \/ AppInit

SpecController == Init /\ [][NextController]_vars

---------------------------------------------------------------------------
(* API: searchCards and clearCache called directly, the clock moving across
   the staleness window *)

(* the number of staleness windows the clock may cross *)
MaxWindows == 1

(* Date.now() at the calls: the start, and a millisecond before, at and
   after each full window since the start *)
ApiClock ==
    {StartTime + k * CACHE_DURATION + j : k \in 0..MaxWindows, j \in {-1, 0, 1}}
    \cap (StartTime..(StartTime + MaxWindows * CACHE_DURATION + 1))

Mew == <<"M","e","w">>
PikachuEx == [id |-> <<"x","y","-","7">>, name |-> Pikachu \o <<" ","E","X">>,
              setName |-> <<"X","Y">>, setId |-> <<"x","y">>, number |-> <<"7">>]

(* the (name, set, number) a caller hands to searchCards *)
Queries ==
    {[name |-> <<" ","P","I","K","A">>, set |-> <<"B","a","s","e">>, number |-> <<>>],
     [name |-> Mew, set |-> <<>>, number |-> <<"1","5","1">>]}

(* how the remote call of searchCards settles: fetch rejects, the status is
   not OK, the body has no cards, or the body lists cards *)
Catalog ==
    {[kind |-> "networkError", cards |-> <<>>],
     [kind |-> "status", cards |-> <<>>],
     [kind |-> "json", cards |-> <<>>],
     [kind |-> "json", cards |-> <<RaichuCard, PikachuEx, PikachuCard>>],
     [kind |-> "json", cards |-> <<PikachuCard, RaichuCard>>]}

(* fetchFromPokemonTCG: a rejected fetch and a non-OK status are caught and
   answered as a failure *)
fetchFromPokemonTCG(outcome) ==
    IF outcome.kind = "json" THEN [ok |-> TRUE, data |-> outcome.cards]
    ELSE [ok |-> FALSE, data |-> <<>>]

(* a searchCards call: its arguments, the value it returned, whether it
   went to the remote catalog and how the remote call settled *)
NoOutcome == [kind |-> "none", cards |-> <<>>]

ApiEvent(op, q, result, remote) ==
    [op |-> op, name |-> q.name, set |-> q.set, number |-> q.number,
     success |-> result.success, data |-> result.data, message |-> result.error,
     remote |-> remote, outcome |-> NoOutcome, screen |-> ""]

(* searchCards up to its return from the cache or to its remote call *)
SearchCardsCall(q) ==
    /\ LET key == CacheKey(q.name, q.set, q.number)
       IN  IF CacheHit(cache, key, now)
           THEN /\ lastOp' = ApiEvent("returnedCached", q, SearchOk(CachedData(cache, key)), FALSE)
                /\ UNCHANGED tasks
           ELSE /\ Len(tasks) < MaxInFlight
                /\ tasks' = Append(tasks, [pc |-> "fetch", cd |-> q])
                /\ lastOp' = ApiEvent("remoteIssued", q, SearchFail(""), TRUE)
    /\ UNCHANGED <<authVars, now, uiVars, storeVars, currentCard, searchInProgress, timers,
                   apiVars>>

(* the remote call of a searchCards call settles: searchCards returns *)
SearchCardsSettle(i, outcome) ==
    /\ tasks[i].pc = "fetch"
    /\ \E searchResult \in {SearchAfterFetch(fetchFromPokemonTCG(outcome), tasks[i].cd.name)} :
           /\ cache' = CacheAfterFetch(cache, searchResult, tasks[i].cd.name,
                                       tasks[i].cd.set, tasks[i].cd.number, now)
           /\ lastOp' = [ApiEvent("returnedRemote", tasks[i].cd, searchResult, TRUE)
                            EXCEPT !.outcome = outcome]
    /\ tasks' = Remove(tasks, i)
    /\ UNCHANGED <<authVars, now, uiVars, storeVars, currentCard, searchInProgress, timers>>

(* API.clearCache() *)
ClearCache ==
    /\ cache' = {}
    /\ lastOp' = Plain("clearCache")
    /\ UNCHANGED <<authVars, now, uiVars, storeVars, appVars>>

(* time passes between two calls *)
Elapse ==
    /\ \E t \in ApiClock : t > now /\ now' = t
    /\ lastOp' = Plain("tick")
    /\ UNCHANGED <<authVars, pageVars>>

NextApi ==
    \/ \E q \in Queries : SearchCardsCall(q)
    \/ \E i \in 1..Len(tasks) : \E outcome \in Catalog : SearchCardsSettle(i, outcome)
    \/ ClearCache
    \/ Elapse

SpecApi == Init /\ [][NextApi]_vars

---------------------------------------------------------------------------
(* Pricing: the fallback card of performSearch and enrichCardWithPricing,
   applied to names, cards and conditions *)

(* descriptor names: every pairing of the end characters, with and without
   characters between them, one-character names, and the names of the
   scenarios *)
PriceNames ==
    {<<a>> \o mid \o <<b>> : a \in {"C", "P", "a", "9"}, b \in {"d", "u", "Z"},
                             mid \in {<<>>, <<"i","k","a">>}}
    \cup {<<"P">>, <<"z">>, Charizard, Pikachu}

(* condition values: the three of the table, two the table does not have,
   and one that names a member every object inherits *)
PriceConditions ==
    {"Near Mint", "Lightly Played", "Moderately Played", "Heavily Played", "", "constructor"}

Descriptor(cardName, condition) ==
    [name |-> cardName, set |-> BaseSet, number |-> <<>>, condition |-> condition, photo |-> ""]

(* cards handed to enrichCardWithPricing: a formatted remote card, a fallback
   card, and a card whose avg is 0 *)
PriceCards ==
    {FormatCard(PikachuCard), createMockCardResult(Descriptor(Charizard, "Near Mint"), StartTime),
     [FormatCard(RaichuCard) EXCEPT !.avg = 0]}

(* performSearch when searchCards reported a failure: the fallback card and
   its enrichment *)
FallbackSearch(cardName, condition) ==
    /\ \E card \in {ChooseCard(SearchFail("No cards found"), Descriptor(cardName, condition), now)} :
          lastOp' = [op |-> "fallback", name |-> cardName, condition |-> condition,
                     card |-> card, enriched |-> enrichCardWithPricing(card, condition),
                     screen |-> ""]
    /\ UNCHANGED <<authVars, now, pageVars>>

(* API.enrichCardWithPricing(card, condition) *)
EnrichCall(card, condition) ==
    /\ lastOp' = [op |-> "enrich", name |-> card.name, condition |-> condition,
                  card |-> card, enriched |-> enrichCardWithPricing(card, condition),
                  screen |-> ""]
    /\ UNCHANGED <<authVars, now, pageVars>>

NextPrice ==
    \/ \E n \in PriceNames : \E c \in PriceConditions : FallbackSearch(n, c)
    \/ \E card \in PriceCards : \E c \in PriceConditions : EnrichCall(card, c)
    \/ Tick

SpecPrice == Init /\ [][NextPrice]_vars

---------------------------------------------------------------------------
(* Claims about the search workflow *)

(* C1: at most one search is in flight at any time *)
C1_AtMostOneSearchInFlight == Len(tasks) <= 1

ConfirmOps == {"confirmDropped", "confirmRefused", "confirmStarted"}

C2_Step ==
    /\ Len(tasks') > Len(tasks) =>
          /\ searchInProgress'
          /\ tasks'[Len(tasks')].pc = "delay"
          /\ tasks' = Append(tasks, tasks'[Len(tasks')])
    /\ Len(tasks') < Len(tasks) => lastOp'.op \in {"searchDone", "appInit"}
    /\ lastOp'.op = "searchDone" => ~searchInProgress'
    /\ (lastOp'.op \in ConfirmOps /\ ~searchInProgress /\ isLoggedIn /\ IsSome(cardData)) =>
          lastOp'.op = "confirmStarted" /\ searchInProgress'

(* C2: a set guard is eventually cleared, whatever the lookup answers; a
   search starts with the guard set and its remote call not yet issued; a
   started search leaves only by completing (or with the page); a confirm made
   with the guard clear, a session and a descriptor starts a search *)
C2_GuardEventuallyCleared ==
    /\ searchInProgress ~> ~searchInProgress
    /\ [][C2_Step]_vars

(* a search completed with a catalog answer and a later confirm started the next *)
C2_Witness ==
    /\ cache # {}
    /\ lastOp.op = "confirmStarted"
    /\ searchInProgress
    /\ Len(tasks) = 1

(* C3: a step whose last showScreen request names a protected screen while no
   session is active ends with the auth screen displayed and the 'log in
   first' message set *)
C3_ProtectedRequestEndsOnAuth ==
    [][(lastOp'.screen \in protectedScreens /\ ~IsSome(session')) =>
           (currentScreen' = "auth" /\ errorMessage' = LogInFirst)]_vars

C3_Witness ==
    /\ lastOp.op = "errorRetry"
    /\ lastOp.screen \in protectedScreens
    /\ ~IsSome(session)
    /\ currentScreen = "auth"
    /\ errorMessage = LogInFirst

(* C4: after any step that leaves no session active, a protected screen is
   displayed only if the step did not enter it - it was displayed before and
   the step made no screen request; so no transition, the results display at
   search completion included, enters a protected screen without a session *)
C4_SessionCheckedOnEveryEntry ==
    [][(~IsSome(session') /\ currentScreen' \in protectedScreens) =>
           (currentScreen' = currentScreen /\ lastOp'.screen = "")]_vars

(* the session was removed while a search was in flight and the completion
   ended on auth *)
C4_Witness ==
    /\ lastOp.op = "searchDone"
    /\ lastOp.screen = "results"
    /\ ~IsSome(session)
    /\ currentScreen = "auth"

---------------------------------------------------------------------------
(* Claims about the credential store, checked under SpecAuth.  A step whose
   new lastOp names a call is a step of that call with those arguments. *)

StoredUsers == UsersOrEmpty(users)
WellFormedEmails == {DemoEmail, AnnEmail, BobEmail}
Registered(email) == \E i \in 1..Len(StoredUsers) : StoredUsers[i].email = email
Matching(email, password) ==
    \E i \in 1..Len(StoredUsers) :
        StoredUsers[i].email = email /\ StoredUsers[i].password = password

(* C5: login with a registered email and the matching password succeeds and
   leaves one session carrying that user's id, name and email, whatever
   session existed before; with a non-matching password it fails. *)
C5_LoginDecidedByPassword ==
    [][(lastOp'.op = "login" /\ Registered(lastOp'.email)) =>
            IF Matching(lastOp'.email, lastOp'.password)
            THEN /\ lastOp'.success
                 /\ Len(session') = 1
                 /\ \E i \in 1..Len(StoredUsers) :
                        /\ StoredUsers[i].email = lastOp'.email
                        /\ session'[1] = [id |-> StoredUsers[i].id,
                                          name |-> StoredUsers[i].name,
                                          email |-> lastOp'.email,
                                          loginTime |-> now]
            ELSE ~lastOp'.success /\ session' = session]_vars

C5_Witness ==
    /\ lastOp.op = "login" /\ lastOp.success
    /\ lastOp.email = DemoEmail /\ lastOp.password = DemoPassword
    /\ IsSome(session) /\ Get(session).email = DemoEmail /\ Get(session).name = DemoName
    /\ Len(StoredUsers) >= 2

(* C6: a signup whose fields are all non-empty, whose email is well formed
   and not yet registered and whose password has at least 6 characters
   succeeds, appends exactly one record with that name, email and password,
   and leaves a session with that name and email. *)
C6_SignupAppendsAndLogsIn ==
    [][(/\ lastOp'.op = "signup"
        /\ ~Empty(lastOp'.name) /\ ~Empty(lastOp'.email) /\ ~Empty(lastOp'.password)
        /\ lastOp'.email \in WellFormedEmails /\ ~Registered(lastOp'.email)
        /\ Len(lastOp'.password) >= 6) =>
            /\ lastOp'.success
            /\ IsSome(users')
            /\ Len(Get(users')) = Len(StoredUsers) + 1
            /\ SubSeq(Get(users'), 1, Len(StoredUsers)) = StoredUsers
            /\ LET r == Get(users')[Len(StoredUsers) + 1]
               IN  /\ r.name = lastOp'.name
                   /\ r.email = lastOp'.email
                   /\ r.password = lastOp'.password
            /\ IsSome(session')
            /\ Get(session').name = lastOp'.name
            /\ Get(session').email = lastOp'.email]_vars

C6_Witness ==
    /\ lastOp = Event("signup", AnnName, AnnEmail, Abc123,
                      Result(TRUE, "Account created successfully"))
    /\ IsSome(session) /\ Get(session).name = AnnName

ValidationMessages ==
    {"All fields are required", "Invalid email address",
     "Password must be at least 6 characters"}

(* C7: a signup with an empty field, a malformed email or a password shorter
   than 6 characters fails with a validation error and leaves the stored user
   list unchanged. *)
C7_InvalidSignupRejected ==
    [][(/\ lastOp'.op = "signup"
        /\ \/ Empty(lastOp'.name) \/ Empty(lastOp'.email) \/ Empty(lastOp'.password)
           \/ lastOp'.email \notin WellFormedEmails
           \/ Len(lastOp'.password) < 6) =>
            /\ ~lastOp'.success
            /\ lastOp'.message \in ValidationMessages
            /\ users' = users]_vars

C7_Witness ==
    /\ lastOp.op = "signup" /\ ~lastOp.success
    /\ lastOp.name = AnnName /\ lastOp.email = AnnEmail /\ lastOp.password = Abc12
    /\ ~Registered(AnnEmail)

UniqueEmails ==
    \A i, j \in 1..Len(StoredUsers) :
        StoredUsers[i].email = StoredUsers[j].email => i = j

(* C8, as stated: every signup with an email already present fails with the
   duplicate error and adds no record. *)
C8_DuplicateAlwaysDuplicateError ==
    [][(lastOp'.op = "signup" /\ Registered(lastOp'.email)) =>
            /\ ~lastOp'.success
            /\ lastOp'.message = "Email already registered"
            /\ users' = users]_vars

(* a signup step with an email already present: it fails, adds nothing and
   reports the validation error first, the duplicate error otherwise *)
C8_DuplicateStep ==
    (lastOp'.op = "signup" /\ Registered(lastOp'.email)) =>
        /\ ~lastOp'.success
        /\ users' = users
        /\ lastOp'.message =
              IF Empty(lastOp'.name) \/ Empty(lastOp'.password)
              THEN "All fields are required"
              ELSE IF Len(lastOp'.password) < 6
              THEN "Password must be at least 6 characters"
              ELSE "Email already registered"

(* C8, amended: every signup with an email already present fails and adds no
   record, with the duplicate error when its fields pass validation and with
   the validation error otherwise; no two stored records share an email. *)
C8_EmailUniqueKey ==
    /\ UniqueEmails
    /\ [][UniqueEmails' /\ C8_DuplicateStep]_vars

C8_Witness ==
    /\ lastOp.op = "signup" /\ lastOp.message = "Email already registered"
    /\ lastOp.email = AnnEmail
    /\ Len(StoredUsers) >= 2

(* C9: logout leaves no session and never changes the stored records; a
   logout with no session, or right after a logout, changes nothing but the
   record of the call. *)
C9_LogoutIdempotent ==
    [][lastOp'.op = "logout" =>
        /\ ~IsSome(session')
        /\ users' = users
        /\ (~IsSome(session) \/ lastOp.op = "logout") =>
               <<users', session', now'>> = <<users, session, now>>]_vars

C9_Witness ==
    /\ lastOp.op = "logout" /\ ~isLoggedIn
    /\ Len(StoredUsers) >= 2

(* C10: a stored record is never removed and never changes, and init on a
   store that holds a user list changes nothing. *)
C10_AppendOnly ==
    [][/\ IsSome(users')
       /\ Len(Get(users')) >= Len(StoredUsers)
       /\ SubSeq(Get(users'), 1, Len(StoredUsers)) = StoredUsers
       /\ lastOp'.op = "init" => users' = users]_vars

C10_Witness ==
    /\ lastOp.op = "init"
    /\ Len(StoredUsers) >= 2 /\ StoredUsers[1] = DemoUser


---------------------------------------------------------------------------
(* Claims about the lookup service *)

CallOps == {"returnedCached", "remoteIssued"}
ReturnOps == {"returnedCached", "returnedRemote"}
SameQuery(a, b) == a.name = b.name /\ a.set = b.set /\ a.number = b.number
KeyOf(e) == CacheKey(e.name, e.set, e.number)
EntriesOf(c, key) == {e \in c : e.key = key}
FreshEntries(c, key, t) == {e \in EntriesOf(c, key) : t - e.timestamp < 3600000}

(* C11, as stated: of two searchCards calls with identical (name, set,
   number) made within the staleness window (here: one right after the
   other returned), the second returns the results of the first and issues no
   remote call *)
C11_SecondCallNeverRemote ==
    [][(lastOp.op \in ReturnOps /\ lastOp'.op \in CallOps /\ SameQuery(lastOp, lastOp'))
          => (lastOp'.op = "returnedCached" /\ lastOp'.data = lastOp.data)]_vars

C11_Step ==
    /\ lastOp'.op \in CallOps =>
          LET fresh == FreshEntries(cache, KeyOf(lastOp'), now)
          IN  /\ fresh # {} => /\ lastOp'.op = "returnedCached"
                               /\ lastOp'.success
                               /\ \A e \in fresh : lastOp'.data = e.data
                               /\ tasks' = tasks
              /\ fresh = {} => /\ lastOp'.op = "remoteIssued"
                               /\ Len(tasks') = Len(tasks) + 1
              /\ cache' = cache
    /\ lastOp'.op = "returnedRemote" =>
          LET key == KeyOf(lastOp')
          IN  /\ {e \in cache' : e.key # key} = {e \in cache : e.key # key}
              /\ lastOp'.success =>
                    EntriesOf(cache', key) =
                        {[key |-> key, data |-> lastOp'.data, timestamp |-> now]}
              /\ ~lastOp'.success => cache' = cache
    /\ (lastOp.op = "returnedRemote" /\ lastOp.success /\ lastOp'.op \in CallOps
        /\ SameQuery(lastOp, lastOp'))
          => (lastOp'.op = "returnedCached" /\ lastOp'.data = lastOp.data)
    /\ cache' # cache => lastOp'.op \in {"returnedRemote", "clearCache"}

(* C11, amended: a searchCards call that finds an entry of its key younger
   than 3600000 ms returns the data of that entry and issues no remote call;
   with no entry, or one that is 3600000 ms old or older, it issues a remote
   call. An entry is written only by a call whose remote call returned cards:
   it holds what that call returned and the time of its return, so the same
   call made right after it returns the same results from the cache. Nothing
   but such a return and clearCache changes the cache *)
C11_FreshEntryAnswersCall == [][C11_Step]_vars

(* a call answered from an entry one millisecond short of the window, while
   the call for an entry that is exactly one window old went remote *)
C11_Witness ==
    /\ lastOp.op = "returnedCached"
    /\ \E e \in cache : e.key = KeyOf(lastOp) /\ now - e.timestamp = CACHE_DURATION - 1
    /\ \E i \in 1..Len(tasks) :
          \E e \in cache : /\ e.key = KeyOf(tasks[i].cd)
                           /\ now - e.timestamp = CACHE_DURATION

---------------------------------------------------------------------------
(* Claims about the fallback *)

(* the remote outcomes searchCards reports as a failure *)
FailedLookups == {resp \in Responses : ~resp.ok \/ Len(resp.data) = 0}

C12_Step ==
    /\ \A resp \in FailedLookups : \A f \in SearchForms :
          ~SearchAfterFetch(resp, Trim(f.name)).success
    /\ (lastOp'.op = "searchDone" /\ ~lastOp'.success /\ IsSome(session')) =>
          \E i \in 1..Len(tasks) :
              /\ tasks' = Remove(tasks, i)
              /\ currentScreen' = "results"
              /\ errorMessage' = errorMessage
              /\ IsSome(resultsView')
              /\ Get(resultsView').name = tasks[i].cd.name
              /\ Get(resultsView').set = tasks[i].cd.set
              /\ Get(currentCard').name = tasks[i].cd.name
              /\ Get(currentCard').set = tasks[i].cd.set

(* C12: a confirmed search whose remote lookup fails or yields no cards
   ends, with the session still stored, on the results screen showing a card
   made from the descriptor of that search (its name and its set), and not on
   the error screen *)
C12_FallbackShowsDescriptorCard == [][C12_Step]_vars

C12_Witness ==
    /\ lastOp.op = "searchDone"
    /\ ~lastOp.success
    /\ IsSome(session)
    /\ currentScreen = "results"
    /\ IsSome(resultsView)
    /\ Get(resultsView).name = Pikachu
    /\ Get(resultsView).set = BaseSet

(* the price the claim gives for a name, in cents *)
SeededPrice(cardName) ==
    100 * (15 + (((charCode(cardName[1]) + charCode(cardName[Len(cardName)])) * 257) % 486))

SameEnds(a, b) == a[1] = b[1] /\ a[Len(a)] = b[Len(b)]

(* C13: the base price of a fallback card is 15 + (((code of the first
   character + code of the last character of the descriptor name) * 257) mod
   486), lies in 15..500, is the same for every name with the same two end
   characters and at every time of the search, and with condition Near Mint
   the adjusted price equals it *)
C13_FallbackPriceSeededByEnds ==
    lastOp.op = "fallback" =>
        /\ lastOp.enriched.basePrice = SeededPrice(lastOp.name)
        /\ lastOp.enriched.basePrice \in 1500..50000
        /\ \A m \in PriceNames : \A t \in ClockValues :
              SameEnds(m, lastOp.name) =>
                  enrichCardWithPricing(
                      createMockCardResult(Descriptor(m, lastOp.condition), t),
                      lastOp.condition).basePrice = lastOp.enriched.basePrice
        /\ lastOp.condition = "Near Mint" =>
              lastOp.enriched.adjustedPrice = Some(lastOp.enriched.basePrice)

(* scenario C: Charizard, Near Mint: 15 + ((67 + 100) * 257 mod 486) = 166 *)
C13_Witness ==
    /\ lastOp.op = "fallback"
    /\ lastOp.name = Charizard
    /\ lastOp.condition = "Near Mint"
    /\ now > StartTime
    /\ lastOp.enriched.basePrice = 16600
    /\ lastOp.enriched.adjustedPrice = <<16600>>

(* the multiplier the claim gives for a condition, in percent *)
TableMultiplier(condition) ==
    IF condition = "Near Mint" THEN 100
    ELSE IF condition = "Lightly Played" THEN 75
    ELSE 50

C14_Holds(e) ==
    /\ e.enriched.conditionMultiplier = Some(TableMultiplier(e.condition))
    /\ e.enriched.adjustedPrice =
          Some((e.enriched.basePrice * TableMultiplier(e.condition)) \div 100)

(* C14: enrichCardWithPricing uses multiplier 1.0 for Near Mint, 0.75 for
   Lightly Played, 0.50 for Moderately Played and 0.50 for every other
   condition value, and its adjustedPrice is basePrice times that multiplier,
   both with two decimals *)
C14_MultiplierByCondition ==
    lastOp.op \in {"enrich", "fallback"} => C14_Holds(lastOp)

(* the same for the condition values that name no inherited member *)
C14_MultiplierByOwnOrPlainCondition ==
    (lastOp.op \in {"enrich", "fallback"} /\ lastOp.condition \notin ObjectPrototypeNames)
        => C14_Holds(lastOp)

(* an enrichment whose multiplier is no number and whose price is NaN *)
C14_NotANumber ==
    /\ lastOp.op = "enrich"
    /\ lastOp.condition = "constructor"
    /\ lastOp.enriched.adjustedPrice = None

---------------------------------------------------------------------------
(* Claims about the remote call of searchCards *)

NothingFound(outcome) == outcome.kind \in {"networkError", "status"} \/ Len(outcome.cards) = 0

C15_Step ==
    /\ \A i \in 1..Len(tasks) : tasks[i].pc = "fetch" =>
          \A outcome \in Catalog :
              LET r == SearchAfterFetch(fetchFromPokemonTCG(outcome), tasks[i].cd.name)
              IN  r.success \in BOOLEAN /\ (~r.success => r.error # "")
    /\ (lastOp'.op = "returnedRemote" /\ NothingFound(lastOp'.outcome)) =>
          /\ ~lastOp'.success
          /\ lastOp'.message # ""
          /\ lastOp'.data = <<>>
          /\ cache' = cache
          /\ Len(tasks') = Len(tasks) - 1

(* C15: whatever the remote call does, searchCards returns a value; when the
   remote call is rejected, answers with a non-OK status or lists no card,
   that value is {success: false} with an error message and the cache is
   what it was *)
C15_FailedLookupReturnsFailure == [][C15_Step]_vars

C15_Witness ==
    /\ lastOp.op = "returnedRemote"
    /\ lastOp.outcome.kind = "status"
    /\ ~lastOp.success
    /\ lastOp.message = "No cards found"
    /\ \E e \in cache : e.key = KeyOf(lastOp)

(* the ids of the cards of seq whose name, in lower case, contains needle *)
IdsOf(seq) == [i \in 1..Len(seq) |-> seq[i].id]
Containing(cards, needle) ==
    SelectSeq(cards, LAMBDA card : includes(toLowerCase(card.name), needle))
FilteredOrAll(cards, needle) ==
    IF Len(Containing(cards, needle)) = 0 THEN cards ELSE Containing(cards, needle)
FromCatalog(e) == e.op = "returnedRemote" /\ ~NothingFound(e.outcome)

(* C16, as stated: on a cache miss with a non-empty remote result searchCards
   returns the remote cards whose name contains the query name as a
   case-insensitive substring, in remote order, and the whole remote result
   when no card passes *)
C16_FilterByQueryName ==
    FromCatalog(lastOp) =>
        /\ lastOp.success
        /\ IdsOf(lastOp.data) =
              IdsOf(FilteredOrAll(lastOp.outcome.cards, toLowerCase(lastOp.name)))

(* C16, amended: ... whose name contains the query name with the white space
   at its two ends removed ... *)
C16_FilterByTrimmedQueryName ==
    FromCatalog(lastOp) =>
        /\ lastOp.success
        /\ IdsOf(lastOp.data) =
              IdsOf(FilteredOrAll(lastOp.outcome.cards, Trim(toLowerCase(lastOp.name))))
        /\ \A i \in 1..Len(lastOp.data) :
              \E j \in 1..Len(lastOp.outcome.cards) :
                  /\ lastOp.data[i].id = lastOp.outcome.cards[j].id
                  /\ lastOp.data[i].name = lastOp.outcome.cards[j].name

(* the query " PIKA" keeps the two Pikachu cards of three, in remote order *)
C16_Witness ==
    /\ FromCatalog(lastOp)
    /\ lastOp.name = <<" ","P","I","K","A">>
    /\ Len(lastOp.outcome.cards) = 3
    /\ IdsOf(lastOp.data) = <<PikachuEx.id, PikachuCard.id>>

---------------------------------------------------------------------------
(* Claims about the forms *)

(* name, set and condition of a submitted card form are all there *)
AllPresent(f) == ~Empty(Trim(f.name)) /\ ~Empty(Trim(f.set)) /\ IsSome(f.condition)

C17_Step ==
    (lastOp'.op = "handleSearch" /\ currentScreen = "cardInput") =>
        LET f == lastOp'.form
            accepted == IsSome(session) /\ AllPresent(f)
        IN  /\ currentScreen' = "confirmation" <=> accepted
            /\ accepted =>
                  /\ IsSome(cardData')
                  /\ Get(cardData').name = Trim(f.name)
                  /\ Get(cardData').set = Trim(f.set)
                  /\ Get(cardData').condition = Get(f.condition)
            /\ ~accepted => cardData' = cardData

(* C17: a search form submitted on card-input leads to confirmation exactly
   when a session is stored and name, set and condition are all there; when
   one of them is missing, confirmation is not entered and the stored
   descriptor stays what it was *)
C17_ConfirmationNeedsFullForm == [][C17_Step]_vars

(* a form with a photo and a condition but no name is turned down while an
   earlier descriptor is stored *)
C17_Witness ==
    /\ lastOp.op = "handleSearch"
    /\ lastOp.form.photo
    /\ Empty(Trim(lastOp.form.name))
    /\ IsSome(lastOp.form.condition)
    /\ IsSome(session)
    /\ IsSome(cardData)
    /\ currentScreen # "confirmation"

C18_Step ==
    /\ (lastOp'.op \in {"handleLogin", "handleSignup"} /\ ~lastOp'.success)
          => currentScreen' = "auth"
    /\ (lastOp'.op = "handleSearch" /\ ~lastOp'.success)
          => currentScreen' = "cardInput"

(* C18: a failed login or signup leaves the auth screen displayed, and a
   search form that is turned down leaves the card-input screen displayed:
   the failure is shown in place *)
C18_FailuresShownInPlace == [][C18_Step]_vars

(* what the handlers do with a failure: the message on the error screen *)
C18_FailuresShownOnErrorScreen ==
    [][(lastOp'.op \in {"handleLogin", "handleSignup", "handleSearch"} /\ ~lastOp'.success)
          => (currentScreen' = "error" /\ errorMessage' # "")]_vars

---------------------------------------------------------------------------
(* Claims about the end of a search *)

EndScreens == {"results", "error", "auth"}

(* the loading screen displayed leads to results, error or auth displayed,
   the page reloaded or not *)
C19_LoadingLeadsToEndScreenAlways == (currentScreen = "loading") ~> (currentScreen \in EndScreens)


(* C19: while the page lives, the loading screen displayed leads to results,
   error or auth displayed, whether the confirm click started a search, was
   dropped, found no descriptor or found no session: the timer and the
   remote call of the running search settle. A reload of the page ends the
   workflow on card-input or auth *)
C19_LoadingLeadsToEndScreen ==
    (currentScreen = "loading") ~> (currentScreen \in EndScreens \/ lastOp.op = "appInit")


(* the loading screen shown by a confirm click that was dropped, a search
   being in flight *)
C19_Witness ==
    /\ lastOp.op = "confirmDropped"
    /\ currentScreen = "loading"
    /\ searchInProgress
    /\ Len(tasks) = 1


(* C20: results becomes displayed only from loading: the screen displayed
   right before results is the loading screen *)
C20_ResultsOnlyFromLoading ==
    [][(currentScreen' = "results" /\ currentScreen # "results")
          => currentScreen = "loading"]_vars

(* the screens a completing search replaces by results *)
C20_ResultsOnlyBySearchDone ==
    [][(currentScreen' = "results" /\ currentScreen # "results")
          => lastOp'.op = "searchDone"]_vars

---------------------------------------------------------------------------
(* Claims about the start of the page *)

C21_Step ==
    lastOp'.op = "appInit" =>
        /\ session' = session
        /\ currentScreen' = IF IsSome(session) THEN "cardInput" ELSE "auth"
        /\ errorMessage' = ""
        /\ userMenuShown' = IsSome(session)

(* C21: the page starts on card-input when a session is stored and on auth
   when none is: the first load of a browser that holds nothing shows auth,
   and a load that finds the session an earlier load left shows card-input
   without passing auth *)
C21_StartScreenBySession ==
    /\ (lastOp.op = "init" => (session = None /\ currentScreen = "auth"))
    /\ [][C21_Step]_vars

C21_Witness ==
    /\ lastOp.op = "appInit"
    /\ IsSome(session)
    /\ currentScreen = "cardInput"
    /\ userMenuShown

---------------------------------------------------------------------------
(* Claims about failed logins and signups *)

(* the records stored under an email *)
RecordsOf(store, email) ==
    {i \in 1..Len(UsersOrEmpty(store)) : UsersOrEmpty(store)[i].email = email}

(* the reason of a failed login, in the order of the claim *)
LoginFailure(store, email, password) ==
    IF Empty(email) \/ Empty(password) THEN "Email and password are required"
    ELSE IF RecordsOf(store, email) = {} THEN "User not found"
    ELSE "Invalid password"

C22_Step ==
    /\ (lastOp'.op = "login" /\ ~lastOp'.success) =>
          /\ lastOp'.message = LoginFailure(users, lastOp'.email, lastOp'.password)
          /\ session' = session
          /\ users' = users
    /\ (lastOp'.op = "login"
        /\ (Empty(lastOp'.email) \/ Empty(lastOp'.password)
            \/ RecordsOf(users, lastOp'.email) = {}
            \/ \A i \in RecordsOf(users, lastOp'.email) :
                  UsersOrEmpty(users)[i].password # lastOp'.password))
          => ~lastOp'.success
    /\ (lastOp'.op = "signup" /\ ~lastOp'.success) =>
          /\ session' = session
          /\ users' = users

(* C22: a failed login returns a failure whose reason is the first that
   applies of: email or password missing, no record with that email, password
   mismatch; it leaves the session and the stored records as they were; a
   failed signup leaves the session as it was *)
C22_FailedLoginChangesNothing == [][C22_Step]_vars

(* a login with the wrong password for a registered email, a session of
   another login being stored *)
C22_Witness ==
    /\ lastOp.op = "login"
    /\ ~lastOp.success
    /\ lastOp.message = "Invalid password"
    /\ IsSome(session)
    /\ Get(session).email # lastOp.email

---------------------------------------------------------------------------
(* Claims about the session and the screens *)

(* C23: with the session written by the login, signup and logout buttons
   alone, after every user action and every completion of a search a
   displayed card-input, confirmation, loading or results screen has a
   session stored behind it *)
C23_ProtectedScreenHasSession == currentScreen \in protectedScreens => IsSome(session)

(* results displayed by the completion of a search, a session stored *)
C23_Witness ==
    /\ lastOp.op = "searchDone"
    /\ currentScreen = "results"
    /\ IsSome(session)
    /\ IsSome(resultsView)


C24_Step ==
    (lastOp'.op = "searchDone" /\ currentScreen' = "results") =>
        \E i \in 1..Len(tasks) :
            /\ tasks' = Remove(tasks, i)
            /\ session' = tasks[i].owner
            /\ cardData = Some(tasks[i].cd)

(* C24: when a search completes and results is displayed, the session stored
   is the session that was stored when that search was confirmed, and the
   search was made for the descriptor submitted last *)
C24_ResultsForStartingSession == [][C24_Step]_vars

(* the search whose card is shown was made for the descriptor submitted last *)
C24_ResultsFromLastDescriptor ==
    [][(lastOp'.op = "searchDone" /\ currentScreen' = "results") =>
          \E i \in 1..Len(tasks) : tasks' = Remove(tasks, i) /\ cardData = Some(tasks[i].cd)]_vars

---------------------------------------------------------------------------
(* Claims about the cards searchCards returns *)

(* the price the claim gives a catalog card: 5 + ((c * 137) mod 496), c the
   code of the first character of its name *)
PriceByName(cardName) == 5 + ((charCode(cardName[1]) * 137) % 496)

(* C25: the price formatCardResults gives a catalog card is 5 + ((c * 137)
   mod 496) for the first character c of the card's name, within 5..500 *)
C25_PriceSeededByCardName ==
    FromCatalog(lastOp) =>
        \A i \in 1..Len(lastOp.data) :
            /\ lastOp.data[i].avg = PriceByName(lastOp.data[i].name)
            /\ lastOp.data[i].avg \in 5..500

(* every catalog card is given the price of the text 'pokemon' *)
C25_PriceOfEveryCard ==
    FromCatalog(lastOp) =>
        \A i \in 1..Len(lastOp.data) : lastOp.data[i].avg = 469


----------------------------------------------------------------------------
(* C26: the retry button and the screen before the error *)

(* the handlers that raise the error screen from one screen only: the two
   auth forms run on auth, the upload area and the search form on card-input *)
RaisedOn(op) ==
    IF op \in {"handleLogin", "handleSignup"} THEN "auth" ELSE "cardInput"

RaisedByForm ==
    /\ lastOp.op \in {"handleLogin", "handleSignup", "handleFileUpload", "handleSearch"}
    /\ lastOp.screen = "error"
    /\ currentScreen = "error"

(* C26 as stated: retry pressed on an error screen that a form handler has just
   raised displays the screen the handler ran on (the screen displayed
   immediately before the error), or card-input when no previous screen is
   recorded, as the session check of showScreen lets it through *)
C26_Step ==
    (RaisedByForm /\ lastOp'.op = "errorRetry")
        => currentScreen' =
               showScreen(UiNow, isLoggedIn,
                          IF IsSome(previousScreen) THEN RaisedOn(lastOp.op)
                          ELSE "cardInput").screen

C26_RetryReturnsToScreenBeforeError == [][C26_Step]_vars

(* what the handler does: retry asks for the recorded screen, and the only
   screen ever recorded is confirmation, whatever was displayed before the
   error *)
C26_RetryStep ==
    lastOp'.op = "errorRetry"
        => /\ previousScreen \in {None, Some("confirmation")}
           /\ lastOp'.screen = (IF IsSome(previousScreen) THEN "confirmation"
                                ELSE "cardInput")
           /\ currentScreen' = showScreen(UiNow, isLoggedIn, lastOp'.screen).screen

C26_RetryShowsRecordedScreen == [][C26_RetryStep]_vars


----------------------------------------------------------------------------
(* C27: what a success of searchCards carries, and what the cache holds *)

FormattedFields ==
    {"id", "name", "set", "setCode", "number", "imageUrl", "rarity", "type", "hp", "avg"}

(* a non-empty list of cards as formatCardResults writes them *)
FormattedList(data) ==
    /\ Len(data) > 0
    /\ \A i \in 1..Len(data) : DOMAIN data[i] = FormattedFields

C27_StateOk ==
    /\ (lastOp.op \in ReturnOps /\ lastOp.success) => FormattedList(lastOp.data)
    /\ \A e \in cache : FormattedList(e.data)

C27_Step ==
    /\ C27_StateOk'
    /\ (lastOp'.op = "returnedRemote" /\ ~lastOp'.success) => cache' = cache
    /\ (lastOp'.op = "returnedRemote" /\ lastOp'.success) =>
           \E e \in cache' : e.key = KeyOf(lastOp') /\ e.data = lastOp'.data
    /\ lastOp'.op = "returnedCached" =>
           /\ lastOp'.success
           /\ \E e \in cache : e.key = KeyOf(lastOp') /\ e.data = lastOp'.data

(* C27: whenever searchCards returns success: true, from the remote catalog or
   from the cache, its data is a non-empty list of formatted cards; every cache
   entry holds such a list, a success from the remote catalog is stored as
   returned, and a lookup that failed or found nothing leaves the cache alone *)
C27_SuccessCarriesCards == C27_StateOk /\ [][C27_Step]_vars

C27_Witness ==
    /\ lastOp.op = "returnedCached"
    /\ lastOp.success
    /\ Len(lastOp.data) > 0
    /\ \E e \in cache : e.key = KeyOf(lastOp) /\ e.data = lastOp.data


----------------------------------------------------------------------------
(* C28: the cache key and the (name, set, number) it is built from *)

(* calls whose texts hold the separator of the key: the set typed with an
   underscore, and a name that ends where that set begins *)
BaseUnderscoreSet == <<"B","a","s","e","_","S","e","t">>
KeyQueries ==
    {[name |-> <<"P","i","k","a">>, set |-> BaseUnderscoreSet, number |-> <<>>],
     [name |-> <<"P","i","k","a","_","B","a","s","e">>, set |-> <<"S","e","t">>,
      number |-> <<>>],
     [name |-> <<"P","i","k","a">>, set |-> <<>>, number |-> <<"5","8">>]}

NextKeys ==
    \/ \E q \in KeyQueries : SearchCardsCall(q)
    \/ \E i \in 1..Len(tasks) : \E outcome \in Catalog : SearchCardsSettle(i, outcome)
    \/ ClearCache
    \/ Elapse

SpecKeys == Init /\ [][NextKeys]_vars

(* a successful remote return stores its list under the key of its call, in
   place of any entry of that key: a hit on that key at the very next call
   returns the list stored for the returning call's triple *)
C28_Step ==
    (/\ lastOp.op = "returnedRemote"
     /\ lastOp.success
     /\ lastOp'.op = "returnedCached"
     /\ KeyOf(lastOp') = KeyOf(lastOp))
        => SameQuery(lastOp, lastOp')

(* C28 as stated: two searchCards calls share a cache entry only if their
   (name, set, number) are equal, so a cache hit never returns the results
   stored for a different triple *)
C28_HitOnlyForSameTriple == [][C28_Step]_vars

(* what the key guarantees: a hit returns the entry stored under the same key
   text, and equal triples have equal keys *)
C28_KeyStep ==
    /\ lastOp'.op = "returnedCached" =>
           \E e \in cache : e.key = KeyOf(lastOp') /\ e.data = lastOp'.data
    /\ (lastOp.op \in ReturnOps \cup CallOps /\ lastOp'.op \in ReturnOps \cup CallOps
        /\ SameQuery(lastOp, lastOp')) => KeyOf(lastOp) = KeyOf(lastOp')

C28_HitOnlyForSameKey == [][C28_KeyStep]_vars

=========================================================================
